---- MODULE Spec2Model ----
(***************************************************************************)
(* Model of the stock-checker aggregation layer:                           *)
(*   StockManager   (quote cache; fetch / select / unload)                 *)
(*   StockFetcher   (transport; symbol validation)                         *)
(*   StockWatchers  (watch registry; search / add) and Watcher             *)
(*   Managers       (read / watch / compare)                               *)
(*   ManagersResult, ManagersComparisonResult (snapshot, comparison)       *)
(*                                                                         *)
(* Concurrency.  Node runs every continuation to its next real I/O wait    *)
(* without interruption; the only real wait is the transport call of       *)
(* StockFetcher.fetch.  An action is therefore one such run: Start runs a  *)
(* request until its first transport call (or to completion), Respond      *)
(* delivers one transport outcome and runs the continuation until the      *)
(* next transport call (or to completion).                                 *)
(***************************************************************************)
EXTENDS Integers, Sequences, FiniteSets, TLC

\* JavaScript's undefined, where a quote, a symbol string or a result may stand.
Undefined == [type |-> "undefined"]
\* A string handed to search as its stock filter.
Str(s) == [type |-> "string", value |-> s]
\* An omitted address (undefined in one version, '' in the other: both falsy).
NoAddress == ""
\* No error.
NoError == ""

(***************************************************************************)
(* Bounds and input universes.                                             *)
(***************************************************************************)
\* Transport calls issued in one behaviour.
MaxCalls == 2
\* Longest symbol sequence handed to watch / compare.
MaxSymbols == 3
\* Comparison getter: most entries of a drawn
\* ManagersComparisonResult, and most watchers of one entry.
MaxEntries == 3
MaxWatchers == 2

\* Request slots (requests that can overlap); a new request takes the lowest
\* free slot.
Requests == {1, 2}
\* Raw symbol inputs, spelled out so that the shape check can be computed.
SymbolChars ==
    [DIS |-> <<"D", "I", "S">>,
     NKE |-> <<"N", "K", "E">>,
     ZZZZZZZ |-> <<"Z", "Z", "Z", "Z", "Z", "Z", "Z">>]
Symbols == DOMAIN SymbolChars
Addresses == {"10.0.0.1", "1.2.3.4"}
\* latestPrice values: of the transport's payloads, and of the quotes drawn
\* for the comparison getter.
TransportPrices == {10}
Prices == {10, 25}
\* Keys of a drawn ManagersComparisonResult.data.
EntryNames == {"DIS", "NKE", "AAPL", "MSFT"}
UpperOrDot == {"D", "I", "S", "N", "K", "E", "Z", "."}

\* The symbol arrays handed to watch / compare: length 0..n.
SymbolSeqs(n) == UNION {[1..k -> Symbols] : k \in 0..n}

(***************************************************************************)
(* StockSybmolRegex: z.coerce.string().trim().regex(/^[A-Z.]{1,6}$/).      *)
(***************************************************************************)
RECURSIVE TrimLeft(_)
TrimLeft(cs) ==
    IF cs # <<>> /\ Head(cs) = " " THEN TrimLeft(Tail(cs)) ELSE cs

RECURSIVE TrimRight(_)
TrimRight(cs) ==
    IF cs # <<>> /\ cs[Len(cs)] = " " THEN TrimRight(SubSeq(cs, 1, Len(cs) - 1)) ELSE cs

SymbolMinLen == 1
SymbolMaxLen == 6

\* TRUE iff StockSybmolRegex.parse(symbol) succeeds.
StockSybmolRegex(symbol) ==
    LET cs == TrimRight(TrimLeft(SymbolChars[symbol]))
    IN  /\ Len(cs) >= SymbolMinLen
        /\ Len(cs) <= SymbolMaxLen
        /\ \A i \in 1..Len(cs) : cs[i] \in UpperOrDot

ValidSymbols == {s \in Symbols : StockSybmolRegex(s)}

(***************************************************************************)
(* Quotes.  A StockQuote is an object: ref is its identity, the other      *)
(* fields are whatever the transport payload carried (the constructor      *)
(* assigns the raw properties).                                            *)
(***************************************************************************)
Payloads == [symbol : ValidSymbols, latestPrice : TransportPrices]

StockQuote(ref, payload) ==
    [type |-> "StockQuote", ref |-> ref,
     symbol |-> payload.symbol, latestPrice |-> payload.latestPrice]

\* The properties of a quote that hold a number (typeof value includes "num").
NumericFields(quote) == DOMAIN quote \ {"type", "ref", "symbol"}

\* Outcomes of one transport call (StockFetcher.fetch), besides a payload:
\*   NotFound  - string payload naming the symbol (line 132)
\*   Function  - onConnectionError throws the arrow function it builds (109)
\*   ZodError  - JSON payload that is no object: new StockQuote rejects it
\*   TypeError - the network call itself rejects
TransportErrors == {"NotFound", "Function", "ZodError", "TypeError"}

(***************************************************************************)
(* StockWatchers (the registry) and Watcher.  A Watcher object is named by *)
(* its position in #watchers: the list is only ever pushed to, so the      *)
(* position is a stable reference.                                         *)
(***************************************************************************)
\* new Watcher(properties).  The constructor body is
\*     super(properties)
\*     (strict || this._schema.safeParse().success) ? ... : false;
\* With no semicolon after super(properties) the second line is the argument
\* list of a call on super's result, and evaluating it reads the identifier
\* strict, which is bound nowhere in the module: every construction throws
\* ReferenceError and no Watcher object ever exists.
NewWatcher(properties) ==
    [ok |-> FALSE, error |-> "ReferenceError", value |-> properties]

\* The members of a set of positions, ascending (Array.prototype.filter keeps order).
RECURSIVE Ascending(_)
Ascending(S) ==
    IF S = {} THEN <<>>
    ELSE LET least == CHOOSE i \in S : \A j \in S : i <= j
         IN  <<least>> \o Ascending(S \ {least})

\* StockWatchers.search(stock, address): the Watchers (positions) that match.
search(reg, stock, address) ==
    LET falsy == stock.type = "undefined" \/ (stock.type = "string" /\ stock.value = "")
        validate(w) ==
            IF falsy THEN TRUE
            ELSE IF stock.type = "StockQuote"
                 THEN \E k \in 1..Len(w.stock) : w.stock[k].ref = stock.ref
                 ELSE \E k \in 1..Len(w.stock) : w.stock[k].symbol = stock.value
    IN  Ascending({i \in 1..Len(reg) :
            (address = NoAddress \/ address = reg[i].address) /\ validate(reg[i])})

\* update(): push the stock onto the first Watcher with the address.
update(reg, stock, address) ==
    LET hits == {i \in 1..Len(reg) : reg[i].address = address}
    IN  IF hits = {} THEN reg
        ELSE LET first == CHOOSE i \in hits : \A j \in hits : i <= j
             IN  [reg EXCEPT ![first].stock = Append(@, stock)]

\* StockWatchers.add(stock, address): the registry afterwards and the error thrown.
add(reg, stock, address) ==
    LET find == Len(search(reg, stock, address))
    IN  IF stock.type # "StockQuote" THEN [watchers |-> reg, error |-> "ZodError"]
        ELSE IF find # 0 THEN [watchers |-> reg, error |-> NoError]
        ELSE IF Len(search(reg, Undefined, address)) # 0
             THEN [watchers |-> update(reg, stock, address), error |-> NoError]
             ELSE LET watcher == NewWatcher([stock |-> <<stock>>, address |-> address])
                  IN  IF watcher.ok
                      THEN [watchers |-> Append(reg, watcher.value), error |-> NoError]
                      ELSE [watchers |-> reg, error |-> watcher.error]

\* get addresses(): new Set(this.search.map(...)).  this.search is the method
\* itself, not its result, and a function has no map: the getter throws.
addresses(reg) ==
    [error |-> "TypeError", value |-> {}]

(***************************************************************************)
(* ManagersResult and ManagersComparisonResult.                            *)
(***************************************************************************)
NoResult == [kind |-> "none"]

\* new ManagersResult(stocks, watchers): the watchers setter stores a fresh
\* array (z.array(...).parse) of the same Watcher references.
ManagersResult(quote, found) ==
    [kind |-> "single", stocks |-> quote, watchers |-> found]

\* Object.fromEntries over [name, value] pairs: a repeated key keeps its first
\* position and takes the last value.
RECURSIVE FromEntries(_)
FromEntries(pairs) ==
    IF pairs = <<>> THEN <<>>
    ELSE LET init == FromEntries(SubSeq(pairs, 1, Len(pairs) - 1))
             last == pairs[Len(pairs)]
             at == {i \in 1..Len(init) : init[i].name = last.name}
         IN  IF at = {} THEN Append(init, last)
             ELSE [i \in 1..Len(init) |-> IF i \in at THEN last ELSE init[i]]

ManagersComparisonResult(entries) ==
    [kind |-> "comparison", data |-> entries]

\* ManagersComparisonResult.names: Object.keys(this.data).
names(entries) == [i \in 1..Len(entries) |-> entries[i].name]

\* Array.prototype.slice(start, end) on a 0-based array held as a sequence;
\* endGiven = FALSE stands for end = undefined.
Slice(seq, start, endGiven, end) ==
    LET n == Len(seq)
        clamp(k) == IF k < 0 THEN (IF n + k < 0 THEN 0 ELSE n + k)
                    ELSE (IF k > n THEN n ELSE k)
        from == clamp(start)
        to == IF endGiven THEN clamp(end) ELSE n
    IN  SubSeq(seq, from + 1, to)

\* Mutation of PartnerSlice: the partner of index is at N - 1 for index 0 and
\* at N - index otherwise.
PartnerSliceMirror(entries, index) ==
    <<entries[(IF index = 0 THEN Len(entries) - 1 ELSE Len(entries) - index) + 1]>>

\* Object.values(this.data).slice(-(1 - index), index ? -index : undefined):
\* element [0] of this is the entry that index is compared with.
PartnerSlice(entries, index) ==
    Slice(entries, -(1 - index), index # 0, -index)

\* Mutation of popular: the own count minus the partner's.
popularReversed(entries) ==
    [i \in 1..Len(entries) |->
        [name |-> entries[i].name,
         value |-> Len(entries[i].value.watchers)
                   - Len(PartnerSlice(entries, i - 1)[1].value.watchers)]]

\* popular(): per name, the partner's watcher count minus the own one.
popular(entries) ==
    [i \in 1..Len(entries) |->
        [name |-> entries[i].name,
         value |-> Len(PartnerSlice(entries, i - 1)[1].value.watchers)
                   - Len(entries[i].value.watchers)]]

\* differences(): per name, [field, partner - own] for every key of
\* Object.keys(this.names), i.e. the array indices "0" .. "N-1", at which both
\* quotes hold a number.
differences(entries) ==
    [i \in 1..Len(entries) |->
        LET own == entries[i].value.stocks
            partner == PartnerSlice(entries, i - 1)[1].value.stocks
            keys == {ToString(k - 1) : k \in DOMAIN names(entries)}
        IN  [name |-> entries[i].name,
             value |-> {[field |-> f, value |-> partner[f] - own[f]] :
                          f \in keys \cap NumericFields(own) \cap NumericFields(partner)}]]

\* get comparison(): reading .watchers of a missing partner throws TypeError.
comparison(entries) ==
    IF \E i \in 1..Len(entries) : PartnerSlice(entries, i - 1) = <<>>
    THEN [error |-> "TypeError", watchers |-> <<>>, stocks |-> <<>>]
    ELSE [error |-> NoError, watchers |-> popular(entries), stocks |-> differences(entries)]

(***************************************************************************)
(* StockManager and Managers, as the runs between two transport calls.     *)
(***************************************************************************)
\* A request slot.  names: the symbols handed in (a lone symbol as <<symbol>>);
\* isArray: whether they came as an array; pc: idle, loop (watch's loop waits
\* for the read of names[index]), final (the closing read / compare waits),
\* done; wait: the reads whose transport call is outstanding; parts: the
\* ManagersResult per read of the closing read / compare.
IdleReq ==
    [op |-> "idle", isArray |-> FALSE, names |-> <<>>, address |-> NoAddress,
     pc |-> "idle", index |-> 0, wait |-> {}, parts |-> <<>>,
     result |-> NoResult, error |-> NoError,
     ncalls |-> 0, fetched |-> {},
     prev |-> Undefined, prevQuiet |-> Undefined]

\* StockManager.select(symbol).
select(cache, symbol) == cache[symbol]

\* Mutation of FetchStart: the cache is not consulted.
FetchStartNoHit(cache, symbol) ==
    IF ~StockSybmolRegex(symbol)
    THEN [kind |-> "error", quote |-> Undefined]
    ELSE [kind |-> "miss", quote |-> Undefined]

\* Mutation of FetchStart: the symbol is not validated.
FetchStartNoCheck(cache, symbol) ==
    IF select(cache, symbol) # Undefined
    THEN [kind |-> "hit", quote |-> select(cache, symbol)]
    ELSE [kind |-> "miss", quote |-> Undefined]

\* StockManager.fetch(symbol) up to its first wait: a cached symbol is
\* returned; otherwise the setter of StockFetcher.symbol validates the symbol
\* (ZodError, no transport call) and fetcher.fetch() calls the transport.
FetchStart(cache, symbol) ==
    IF select(cache, symbol) # Undefined
    THEN [kind |-> "hit", quote |-> select(cache, symbol)]
    ELSE IF ~StockSybmolRegex(symbol)
         THEN [kind |-> "error", quote |-> Undefined]
         ELSE [kind |-> "miss", quote |-> Undefined]

\* Mutation of CompareNames: every symbol is read.
CompareNamesAll(symbols) == symbols

\* Managers.compare: names = symbols.slice(0, 2).
CompareNames(symbols) == Slice(symbols, 0, TRUE, 2)

\* The symbols read by the closing step of a request: read(symbol),
\* compare(symbols), and watch's return this[isArray ? compare : read](symbol).
FinalNames(req) ==
    IF req.op = "compare" \/ (req.op = "watch" /\ req.isArray)
    THEN CompareNames(req.names)
    ELSE req.names

\* Whether the closing step builds a ManagersComparisonResult.
FinalIsComparison(req) ==
    req.op = "compare" \/ (req.op = "watch" /\ req.isArray)

\* The value a request resolves to once every closing read has its result.
Finish(req, parts) ==
    IF FinalIsComparison(req)
    THEN ManagersComparisonResult(FromEntries(
            [p \in 1..Len(parts) |-> [name |-> FinalNames(req)[p], value |-> parts[p]]]))
    ELSE parts[1]

\* The closing read(s), started together (Promise.all over names.map): each
\* read either hits the cache, is rejected by the symbol check or calls the
\* transport.  A rejection settles the request at once; the other reads'
\* transport calls stay outstanding.
Gather(cache, reg, req) ==
    LET gnames == FinalNames(req)
        rs == [p \in 1..Len(gnames) |-> FetchStart(cache, gnames[p])]
        errs == {p \in 1..Len(gnames) : rs[p].kind = "error"}
        miss == {p \in 1..Len(gnames) : rs[p].kind = "miss"}
        parts == [p \in 1..Len(gnames) |->
                    IF rs[p].kind = "hit"
                    THEN ManagersResult(rs[p].quote, search(reg, rs[p].quote, NoAddress))
                    ELSE NoResult]
    IN  [req EXCEPT
            !.pc = IF errs # {} \/ miss = {} THEN "done" ELSE "final",
            !.wait = miss,
            !.parts = parts,
            !.error = IF errs # {} THEN "ZodError" ELSE NoError,
            !.result = IF errs = {} /\ miss = {} THEN Finish(req, parts) ELSE NoResult,
            !.ncalls = @ + Cardinality(miss),
            !.fetched = @ \cup {gnames[p] : p \in miss}]

\* Managers.watch's loop from names[index] on, and what follows a read of the
\* loop that has produced its quote: watchers.add, then the next symbol.
RECURSIVE RunLoop(_, _, _)
RECURSIVE AfterLoopRead(_, _, _, _)
RunLoop(cache, reg, req) ==
    IF req.index > Len(req.names)
    THEN [req |-> Gather(cache, reg, req), watchers |-> reg]
    ELSE LET symbol == req.names[req.index]
             r == FetchStart(cache, symbol)
         IN  IF r.kind = "error"
             THEN [req |-> [req EXCEPT !.pc = "done", !.error = "ZodError"],
                   watchers |-> reg]
             ELSE IF r.kind = "miss"
             THEN [req |-> [req EXCEPT !.pc = "loop", !.wait = {1},
                                       !.ncalls = @ + 1,
                                       !.fetched = @ \cup {symbol}],
                   watchers |-> reg]
             ELSE AfterLoopRead(cache, reg, req, r.quote)

AfterLoopRead(cache, reg, req, quote) ==
    LET a == add(reg, quote, req.address)
    IN  IF a.error # NoError
        THEN [req |-> [req EXCEPT !.pc = "done", !.error = a.error],
              watchers |-> a.watchers]
        ELSE RunLoop(cache, a.watchers, [req EXCEPT !.index = @ + 1])

\* The symbol whose transport call read p of a request is waiting for.
WaitSymbol(req, p) ==
    IF req.pc = "loop" THEN req.names[req.index] ELSE FinalNames(req)[p]

(***************************************************************************)
(* State.                                                                  *)
(***************************************************************************)
VARIABLES
    stocks,     \* StockManager.#stocks: requested symbol -> quote or None
    watchers,   \* StockWatchers.#watchers: sequence of Watcher
    reqs,       \* the requests in flight / finished, per slot
    calls,      \* transport calls issued so far
    created,    \* StockQuote objects constructed so far
    lastRead,   \* history: quote returned by the latest finished read(S), no unload(S) since
    lastQuiet,  \* history: as lastRead, also reset by every cache write of S
    data,       \* ManagersComparisonResult.data of the comparison under study
    out,        \* value read from its comparison getter
    callbacks,  \* StockManager.callbacks: the hooks a consumer has installed
    fetches,    \* the StockManager.fetch calls a consumer has in flight, per slot
    unloaded,   \* history: the latest StockManager.unload
    input,      \* the arguments drawn for the function under study
    output      \* what the function made of them

vars == <<stocks, watchers, reqs, calls, created, lastRead, lastQuiet, data, out,
          callbacks, fetches, unloaded, input, output>>

\* The state of a StockManager driven by a consumer directly.
managerVars == <<callbacks, fetches, unloaded>>

\* The state of a function studied on its own.
pureVars == <<input, output>>

(***************************************************************************)
(* Initial state: new Managers(), no request.                              *)
(***************************************************************************)
NoData == <<>>
\* callbacks = {}: no hook installed.
NoCallbacks ==
    [fetch |-> [installed |-> FALSE, truthy |-> FALSE],
     downloaded |-> FALSE,
     deletion |-> [installed |-> FALSE, returns |-> TRUE]]
\* A slot with no StockManager.fetch call in it.  pc: idle, hook (awaiting
\* callbacks.fetch), transport (awaiting fetcher.fetch()), downloaded
\* (awaiting callbacks.downloaded), done.
IdleFetch ==
    [pc |-> "idle", symbol |-> "", hit |-> FALSE, error |-> NoError,
     value |-> Undefined, ncalls |-> 0, nfetch |-> 0, ndownloaded |-> 0,
     afterUnload |-> FALSE, afterUnloadQuiet |-> FALSE]
\* No unload so far.  next: no fetch of the unloaded symbol was called since;
\* quiet: moreover nothing was stored under it since.
NeverUnloaded ==
    [called |-> FALSE, symbol |-> "", returned |-> TRUE, next |-> FALSE, quiet |-> FALSE]
\* The slots for StockManager.fetch calls that can overlap.
Fetches == {1, 2}
\* new Managers() installs no hook and nothing calls its StockManager directly.
ManagerUntouched ==
    /\ callbacks = NoCallbacks
    /\ fetches = [c \in Fetches |-> IdleFetch]
    /\ unloaded = NeverUnloaded
NoOut == [error |-> "unread", watchers |-> <<>>, stocks |-> <<>>]
\* No function is studied on its own.
NoInput == [kind |-> "none"]
NoOutput == [kind |-> "none"]
PureUntouched == input = NoInput /\ output = NoOutput

Init ==
    /\ stocks = [s \in Symbols |-> Undefined]
    /\ watchers = <<>>
    /\ reqs = [r \in Requests |-> IdleReq]
    /\ calls = 0
    /\ created = 0
    /\ lastRead = [s \in Symbols |-> Undefined]
    /\ lastQuiet = [s \in Symbols |-> Undefined]
    /\ data = NoData
    /\ out = NoOut
    /\ ManagerUntouched
    /\ PureUntouched

\* History: a finished read(S) is remembered as the latest one.
Remember(history, req) ==
    IF req.op = "read" /\ req.pc = "done" /\ req.error = NoError
    THEN [history EXCEPT ![req.names[1]] = req.result.stocks]
    ELSE history

\* Every finished request has been answered.  The answer is sent as soon as
\* the request settles (res.send right after the await), so nothing else runs
\* between a request finishing and Return.
Answered == \A r \in Requests : reqs[r].pc = "done" => reqs[r].op = "orphan"

\* A request arrives and runs to its first transport call or to its end.
Begin(r, req, run) ==
    /\ Answered
    /\ reqs[r].op = "idle"
    /\ \A lower \in Requests : lower < r => reqs[lower].op # "idle"
    /\ calls + run.req.ncalls <= MaxCalls
    /\ calls' = calls + run.req.ncalls
    /\ reqs' = [reqs EXCEPT ![r] = run.req]
    /\ watchers' = run.watchers
    /\ lastRead' = Remember(lastRead, run.req)
    /\ lastQuiet' = Remember(lastQuiet, run.req)
    /\ UNCHANGED <<stocks, created, data, out, managerVars, pureVars>>

\* Managers.read(symbol).
StartRead(r, symbol) ==
    LET req == [IdleReq EXCEPT !.op = "read", !.names = <<symbol>>,
                               !.prev = lastRead[symbol],
                               !.prevQuiet = lastQuiet[symbol]]
    IN  Begin(r, req, [req |-> Gather(stocks, watchers, req), watchers |-> watchers])

\* Managers.watch(symbol, address), symbol a string or an array.
StartWatch(r, isArray, symbols, address) ==
    LET req == [IdleReq EXCEPT !.op = "watch", !.isArray = isArray,
                               !.names = symbols, !.address = address,
                               !.index = 1]
    IN  Begin(r, req, RunLoop(stocks, watchers, req))

\* Managers.compare(symbols).
StartCompare(r, symbols) ==
    LET req == [IdleReq EXCEPT !.op = "compare", !.isArray = TRUE, !.names = symbols]
    IN  Begin(r, req, [req |-> Gather(stocks, watchers, req), watchers |-> watchers])

\* Mutation of RespondError: the error is wrapped on its way to the caller.
RespondErrorWrapped(r, p, error) ==
    /\ Answered
    /\ p \in reqs[r].wait
    /\ reqs' = [reqs EXCEPT ![r] =
                    IF @.pc = "done" THEN IdleReq
                    ELSE [@ EXCEPT !.pc = "done", !.wait = @ \ {p}, !.error = "Error"]]
    /\ UNCHANGED <<stocks, watchers, calls, created, lastRead, lastQuiet, data, out,
                   managerVars, pureVars>>

\* The transport call of read p of request r fails: the error reaches the
\* caller unless the request has settled already.
RespondError(r, p, error) ==
    /\ Answered
    /\ p \in reqs[r].wait
    /\ reqs' = [reqs EXCEPT ![r] =
                    IF @.pc = "done" THEN IdleReq
                    ELSE [@ EXCEPT !.pc = "done", !.wait = @ \ {p}, !.error = error]]
    /\ UNCHANGED <<stocks, watchers, calls, created, lastRead, lastQuiet, data, out,
                   managerVars, pureVars>>

\* Mutation of Continue: the result is built as soon as one read has its quote.
ContinueEarly(cache, reg, req, p, quote) ==
    IF req.pc = "done"
    THEN [req |-> IdleReq, watchers |-> reg]
    ELSE IF req.pc = "loop"
    THEN AfterLoopRead(cache, reg, [req EXCEPT !.wait = {}], quote)
    ELSE LET parts == [req.parts EXCEPT
                          ![p] = ManagersResult(quote, search(reg, quote, NoAddress))]
         IN  [req |-> [req EXCEPT !.wait = @ \ {p}, !.parts = parts, !.pc = "done",
                                  !.result = Finish(req, parts)],
              watchers |-> reg]

\* Mutation of Continue: the results built earlier are rebuilt from the cache
\* as it is now.
ContinueRefresh(cache, reg, req, p, quote) ==
    IF req.pc = "done"
    THEN [req |-> IdleReq, watchers |-> reg]
    ELSE IF req.pc = "loop"
    THEN AfterLoopRead(cache, reg, [req EXCEPT !.wait = {}], quote)
    ELSE LET wait == req.wait \ {p}
             parts == [q \in DOMAIN req.parts |->
                          IF q = p
                          THEN ManagersResult(quote, search(reg, quote, NoAddress))
                          ELSE IF q \in wait THEN NoResult
                          ELSE ManagersResult(select(cache, FinalNames(req)[q]),
                                              search(reg, select(cache, FinalNames(req)[q]),
                                                     NoAddress))]
         IN  [req |-> [req EXCEPT
                          !.wait = wait,
                          !.parts = parts,
                          !.pc = IF wait = {} THEN "done" ELSE "final",
                          !.result = IF wait = {} THEN Finish(req, parts) ELSE NoResult],
              watchers |-> reg]

\* Mutation of Continue: a closing read leaves a Watcher for its quote behind.
ContinueRegisters(cache, reg, req, p, quote) ==
    IF req.pc = "done"
    THEN [req |-> IdleReq, watchers |-> reg]
    ELSE IF req.pc = "loop"
    THEN AfterLoopRead(cache, reg, [req EXCEPT !.wait = {}], quote)
    ELSE LET parts == [req.parts EXCEPT
                          ![p] = ManagersResult(quote, search(reg, quote, NoAddress))]
             wait == req.wait \ {p}
         IN  [req |-> [req EXCEPT
                          !.wait = wait,
                          !.parts = parts,
                          !.pc = IF wait = {} THEN "done" ELSE "final",
                          !.result = IF wait = {} THEN Finish(req, parts) ELSE NoResult],
              watchers |-> IF Len(reg) < MaxWatchers
                           THEN Append(reg, [stock |-> <<quote>>, address |-> "10.0.0.1"])
                           ELSE reg]

\* Mutation of Continue: the request does not settle when its last read has
\* its quote.
ContinueUnsettled(cache, reg, req, p, quote) ==
    IF req.pc = "done"
    THEN [req |-> IdleReq, watchers |-> reg]
    ELSE IF req.pc = "loop"
    THEN AfterLoopRead(cache, reg, [req EXCEPT !.wait = {}], quote)
    ELSE LET parts == [req.parts EXCEPT
                          ![p] = ManagersResult(quote, search(reg, quote, NoAddress))]
         IN  [req |-> [req EXCEPT !.wait = @ \ {p}, !.parts = parts],
              watchers |-> reg]

\* The continuation of a request after read p got its quote (already cached).
Continue(cache, reg, req, p, quote) ==
    IF req.pc = "done"
    THEN [req |-> IdleReq, watchers |-> reg]
    ELSE IF req.pc = "loop"
    THEN AfterLoopRead(cache, reg, [req EXCEPT !.wait = {}], quote)
    ELSE LET parts == [req.parts EXCEPT
                          ![p] = ManagersResult(quote, search(reg, quote, NoAddress))]
             wait == req.wait \ {p}
         IN  [req |-> [req EXCEPT
                          !.wait = wait,
                          !.parts = parts,
                          !.pc = IF wait = {} THEN "done" ELSE "final",
                          !.result = IF wait = {} THEN Finish(req, parts) ELSE NoResult],
              watchers |-> reg]

\* Mutation of StoreQuote: the quote lands under the symbol it carries.
StoreQuoteUnderEcho(cache, symbol, quote) == [cache EXCEPT ![quote.symbol] = quote]

\* Mutation of StoreQuote: the quote lands under every symbol.
StoreQuoteEverywhere(cache, symbol, quote) == [s \in DOMAIN cache |-> quote]

\* Mutation of StoreQuote: an entry that exists is kept.
StoreQuoteFirstWins(cache, symbol, quote) ==
    IF cache[symbol] # Undefined THEN cache ELSE [cache EXCEPT ![symbol] = quote]

\* The transport call of read p of request r returns an object payload:
\* this.#stocks[symbol] = new StockQuote(response), under the requested symbol.
StoreQuote(cache, symbol, quote) == [cache EXCEPT ![symbol] = quote]

RespondQuote(r, p, payload) ==
    /\ Answered
    /\ p \in reqs[r].wait
    /\ LET symbol == WaitSymbol(reqs[r], p)
           quote == StockQuote(created + 1, payload)
           cache == StoreQuote(stocks, symbol, quote)
           run == Continue(cache, watchers, reqs[r], p, select(cache, symbol))
           more == IF reqs[r].pc = "done" THEN 0 ELSE run.req.ncalls - reqs[r].ncalls
       IN  /\ calls + more <= MaxCalls
           /\ calls' = calls + more
           /\ stocks' = cache
           /\ created' = created + 1
           /\ reqs' = [reqs EXCEPT ![r] = run.req]
           /\ watchers' = run.watchers
           /\ lastRead' = Remember(lastRead, run.req)
           /\ lastQuiet' = Remember([lastQuiet EXCEPT ![symbol] = Undefined], run.req)
    /\ UNCHANGED <<data, out, managerVars, pureVars>>

\* What is left of a settled request whose other read is still waiting for
\* the transport (compare rejected by one read): that read alone.
Orphan(req) ==
    [IdleReq EXCEPT !.op = "orphan", !.pc = "done", !.wait = {1},
                    !.names = <<WaitSymbol(req, CHOOSE p \in req.wait : TRUE)>>]

\* The caller has its answer: the slot is free for the next request, unless a
\* read of the request is still outstanding.
Return(r) ==
    /\ reqs[r].pc = "done"
    /\ reqs[r].op # "orphan"
    /\ reqs' = [reqs EXCEPT ![r] = IF @.wait = {} THEN IdleReq ELSE Orphan(@)]
    /\ UNCHANGED <<stocks, watchers, calls, created, lastRead, lastQuiet, data, out,
                   managerVars, pureVars>>

\* Mutation of unload: the entry is kept.
unloadKept(cache, symbol) == cache

\* StockManager.unload(symbol): delete this.#stocks[symbol].
unload(cache, symbol) == [cache EXCEPT ![symbol] = Undefined]

Evict(symbol) ==
    /\ Answered
    /\ stocks' = unload(stocks, symbol)
    /\ lastRead' = [lastRead EXCEPT ![symbol] = Undefined]
    /\ lastQuiet' = [lastQuiet EXCEPT ![symbol] = Undefined]
    /\ UNCHANGED <<watchers, reqs, calls, created, data, out, managerVars, pureVars>>

Next ==
    \/ \E r \in Requests, s \in Symbols : StartRead(r, s)
    \/ \E r \in Requests, s \in Symbols, a \in Addresses : StartWatch(r, FALSE, <<s>>, a)
    \/ \E r \in Requests, ss \in SymbolSeqs(MaxSymbols), a \in Addresses :
            StartWatch(r, TRUE, ss, a)
    \/ \E r \in Requests, ss \in SymbolSeqs(MaxSymbols) : StartCompare(r, ss)
    \/ \E r \in Requests, p \in 1..2, e \in TransportErrors : RespondError(r, p, e)
    \/ \E r \in Requests, p \in 1..2, payload \in Payloads : RespondQuote(r, p, payload)
    \/ \E r \in Requests : Return(r)
    \/ \E s \in Symbols : Evict(s)

Spec == Init /\ [][Next]_vars

\* The transport call of some read of request r resolves or fails.
Settle(r) ==
    \E p \in 1..2 :
        \/ \E e \in TransportErrors : RespondError(r, p, e)
        \/ \E payload \in Payloads : RespondQuote(r, p, payload)

\* The same program, with its scheduling: every transport call that is
\* outstanding resolves or fails at some time, however often other requests
\* run in between (the event loop runs every callback that is due), and a
\* settled request is answered (res.send follows the await).
SpecLive ==
    /\ Init
    /\ [][Next]_vars
    /\ \A r \in Requests : SF_vars(Settle(r)) /\ WF_vars(Return(r))

(***************************************************************************)
(* The comparison getter as a function of ManagersComparisonResult.data.   *)
(* The constructor takes any object (z.object({}).loose()), so data is     *)
(* drawn from every ordered mapping of up to MaxEntries names to results   *)
(* with up to MaxWatchers watchers.                                        *)
(***************************************************************************)
DrawnResults ==
    {ManagersResult(StockQuote(0, [symbol |-> s, latestPrice |-> price]), [k \in 1..w |-> k]) :
        s \in {"DIS"}, price \in Prices, w \in 0..MaxWatchers}

DrawnData ==
    UNION {{d \in [1..n -> [name : EntryNames, value : DrawnResults]] :
              \A i, j \in 1..n : i # j => d[i].name # d[j].name} : n \in 1..MaxEntries}

InitComparison ==
    /\ stocks = [s \in Symbols |-> Undefined]
    /\ watchers = <<>>
    /\ reqs = [r \in Requests |-> IdleReq]
    /\ calls = 0
    /\ created = 0
    /\ lastRead = [s \in Symbols |-> Undefined]
    /\ lastQuiet = [s \in Symbols |-> Undefined]
    /\ data \in DrawnData
    /\ out = NoOut
    /\ ManagerUntouched
    /\ PureUntouched

\* Read the getter.
ReadComparison ==
    /\ out = NoOut
    /\ out' = comparison(data)
    /\ UNCHANGED <<stocks, watchers, reqs, calls, created, lastRead, lastQuiet, data,
                   managerVars, pureVars>>

NextComparison == ReadComparison

SpecComparison == InitComparison /\ [][NextComparison]_vars

(***************************************************************************)
(* StockManager driven directly by a consumer that has installed hooks in  *)
(* callbacks, as the runs between two awaits of StockManager.fetch.        *)
(***************************************************************************)
\* The hooks a consumer may have installed: fetch (yielding a quote of its
\* own or nothing), downloaded, deletion (returning true or false).
DrawnCallbacks ==
    {cb \in [fetch : [installed : BOOLEAN, truthy : BOOLEAN],
             downloaded : BOOLEAN,
             deletion : [installed : BOOLEAN, returns : BOOLEAN]] :
        /\ ~cb.fetch.installed => ~cb.fetch.truthy
        /\ ~cb.deletion.installed => cb.deletion.returns}

\* unload's result: callbacks.deletion(symbol) if it is a function, else true.
deletion(cb) == IF cb.deletion.installed THEN cb.deletion.returns ELSE TRUE

\* Mutation of ManagerDownloaded: the downloaded hook is not invoked.
ManagerDownloadedSilent(cb, cache, call) ==
    [call EXCEPT !.pc = "done", !.value = select(cache, call.symbol)]

\* StockManager.fetch once the quote is there: callbacks.downloaded, if a
\* function, is invoked with this.#stocks[symbol] and awaited; then
\* return this.select(symbol).
ManagerDownloaded(cb, cache, call) ==
    IF cb.downloaded
    THEN [call EXCEPT !.pc = "downloaded", !.ndownloaded = @ + 1]
    ELSE [call EXCEPT !.pc = "done", !.value = select(cache, call.symbol)]

\* if (!fetched): the setter of StockFetcher.symbol validates the symbol, then
\* fetcher.fetch() calls the transport.
ManagerTransport(call) ==
    IF ~StockSybmolRegex(call.symbol)
    THEN [call EXCEPT !.pc = "done", !.error = "ZodError"]
    ELSE [call EXCEPT !.pc = "transport", !.ncalls = @ + 1]

\* StockManager.fetch(symbol) up to its first await: a cached symbol is
\* returned at once (no hook runs); otherwise callbacks.fetch, if a function,
\* is awaited, else the transport is called.
ManagerStart(cb, cache, call) ==
    IF FetchStart(cache, call.symbol).kind = "hit"
    THEN [call EXCEPT !.pc = "done", !.hit = TRUE, !.value = select(cache, call.symbol)]
    ELSE IF cb.fetch.installed
    THEN [call EXCEPT !.pc = "hook", !.nfetch = @ + 1]
    ELSE ManagerTransport(call)

InitManager ==
    /\ stocks = [s \in Symbols |-> Undefined]
    /\ watchers = <<>>
    /\ reqs = [r \in Requests |-> IdleReq]
    /\ calls = 0
    /\ created = 0
    /\ lastRead = [s \in Symbols |-> Undefined]
    /\ lastQuiet = [s \in Symbols |-> Undefined]
    /\ data = NoData
    /\ out = NoOut
    /\ callbacks \in DrawnCallbacks
    /\ fetches = [c \in Fetches |-> IdleFetch]
    /\ unloaded = NeverUnloaded
    /\ PureUntouched

\* Every settled call has been handed to its caller (the caller's await
\* resumes right after the call settles).
ManagerAnswered == \A c \in Fetches : fetches[c].pc # "done"

\* A consumer calls fetch(symbol).
ManagerFetch(c, symbol) ==
    /\ ManagerAnswered
    /\ fetches[c].pc = "idle"
    /\ \A lower \in Fetches : lower < c => fetches[lower].pc # "idle"
    /\ LET call == [IdleFetch EXCEPT
                        !.symbol = symbol,
                        !.afterUnload = unloaded.symbol = symbol /\ unloaded.next,
                        !.afterUnloadQuiet = unloaded.symbol = symbol /\ unloaded.quiet]
           run == ManagerStart(callbacks, stocks, call)
       IN  /\ calls + run.ncalls <= MaxCalls
           /\ calls' = calls + run.ncalls
           /\ fetches' = [fetches EXCEPT ![c] = run]
    /\ unloaded' = IF unloaded.symbol = symbol
                   THEN [unloaded EXCEPT !.next = FALSE, !.quiet = FALSE]
                   ELSE unloaded
    /\ UNCHANGED <<stocks, created, callbacks, watchers, reqs, lastRead, lastQuiet, data, out, pureVars>>

\* callbacks.fetch(symbol) has resolved: with a quote (nothing is stored), or
\* with nothing (the transport is called).
ManagerHookFetched(c) ==
    /\ ManagerAnswered
    /\ fetches[c].pc = "hook"
    /\ LET run == IF callbacks.fetch.truthy
                  THEN ManagerDownloaded(callbacks, stocks, fetches[c])
                  ELSE ManagerTransport(fetches[c])
       IN  /\ calls + (run.ncalls - fetches[c].ncalls) <= MaxCalls
           /\ calls' = calls + (run.ncalls - fetches[c].ncalls)
           /\ fetches' = [fetches EXCEPT ![c] = run]
    /\ UNCHANGED <<stocks, created, callbacks, unloaded, watchers, reqs, lastRead,
                   lastQuiet, data, out, pureVars>>

\* The transport answers with an object payload: it is stored under the
\* requested symbol.
ManagerRespondQuote(c, payload) ==
    /\ ManagerAnswered
    /\ fetches[c].pc = "transport"
    /\ LET symbol == fetches[c].symbol
           cache == StoreQuote(stocks, symbol, StockQuote(created + 1, payload))
       IN  /\ stocks' = cache
           /\ created' = created + 1
           /\ fetches' = [fetches EXCEPT ![c] = ManagerDownloaded(callbacks, cache, @)]
           /\ unloaded' = IF unloaded.symbol = symbol
                          THEN [unloaded EXCEPT !.quiet = FALSE]
                          ELSE unloaded
    /\ UNCHANGED <<calls, callbacks, watchers, reqs, lastRead, lastQuiet, data, out, pureVars>>

\* The transport fails.
ManagerRespondError(c, error) ==
    /\ ManagerAnswered
    /\ fetches[c].pc = "transport"
    /\ fetches' = [fetches EXCEPT ![c] = [@ EXCEPT !.pc = "done", !.error = error]]
    /\ UNCHANGED <<stocks, calls, created, callbacks, unloaded, watchers, reqs, lastRead,
                   lastQuiet, data, out, pureVars>>

\* callbacks.downloaded has resolved: return this.select(symbol).
ManagerHookDownloaded(c) ==
    /\ ManagerAnswered
    /\ fetches[c].pc = "downloaded"
    /\ fetches' = [fetches EXCEPT ![c] =
                       [@ EXCEPT !.pc = "done", !.value = select(stocks, fetches[c].symbol)]]
    /\ UNCHANGED <<stocks, calls, created, callbacks, unloaded, watchers, reqs, lastRead,
                   lastQuiet, data, out, pureVars>>

\* The caller has the outcome of its call.
ManagerReturn(c) ==
    /\ fetches[c].pc = "done"
    /\ fetches' = [fetches EXCEPT ![c] = IdleFetch]
    /\ UNCHANGED <<stocks, calls, created, callbacks, unloaded, watchers, reqs, lastRead,
                   lastQuiet, data, out, pureVars>>

\* A consumer calls unload(symbol): the deletion hook, if any, decides the
\* result, then the entry is deleted.
ManagerUnload(symbol) ==
    /\ ManagerAnswered
    /\ stocks' = unload(stocks, symbol)
    /\ unloaded' = [called |-> TRUE, symbol |-> symbol, returned |-> deletion(callbacks),
                    next |-> TRUE, quiet |-> TRUE]
    /\ UNCHANGED <<calls, created, callbacks, fetches, watchers, reqs, lastRead,
                   lastQuiet, data, out, pureVars>>

NextManager ==
    \/ \E c \in Fetches, s \in Symbols : ManagerFetch(c, s)
    \/ \E c \in Fetches : ManagerHookFetched(c)
    \/ \E c \in Fetches, payload \in Payloads : ManagerRespondQuote(c, payload)
    \/ \E c \in Fetches, e \in TransportErrors : ManagerRespondError(c, e)
    \/ \E c \in Fetches : ManagerHookDownloaded(c)
    \/ \E c \in Fetches : ManagerReturn(c)
    \/ \E s \in Symbols : ManagerUnload(s)

SpecManager == InitManager /\ [][NextManager]_vars

(***************************************************************************)
(* The response of GET /api/stock-prices: OutputProcessor.execute applied  *)
(* to the settled request, sent by res.send when the request returns.      *)
(***************************************************************************)
\* Mutation of stockData: likes counts the requester as well.
stockDataPlusOne(result) ==
    [stock |-> result.stocks.symbol,
     price |-> result.stocks.latestPrice,
     likes |-> Len(result.watchers) + 1]

\* new stockData(result): _import copies the quote's symbol and latestPrice
\* and the number of watchers.
stockData(result) ==
    [stock |-> result.stocks.symbol,
     price |-> result.stocks.latestPrice,
     likes |-> Len(result.watchers)]

\* comparedStockData.stockData: per name, the entries of new stockData(...)
\* whose key does not include "like", and rel_likes from the comparison.
comparedStockData(result) ==
    LET relative == comparison(result.data)
    IN  [k \in 1..Len(result.data) |->
            [stock |-> stockData(result.data[k].value).stock,
             price |-> stockData(result.data[k].value).price,
             rel_likes |-> relative.watchers[k].value]]

\* The errors OutputProcessor.execute turns into an error response:
\* ConnectionError, NotFoundError and ZodError instances.
KnownErrors == {"Connection", "NotFound", "ZodError"}

\* Mutation of execute: every error becomes an error response.
executeSwallow(req) ==
    IF req.error # NoError
    THEN [kind |-> "error", shape |-> "object", error |-> req.error]
    ELSE IF req.result.kind = "single"
    THEN [kind |-> "stockData", shape |-> "object", stockData |-> stockData(req.result)]
    ELSE [kind |-> "stockData", shape |-> "array",
          stockData |-> comparedStockData(req.result)]

\* OutputProcessor.execute: a known error becomes {error: ...}, any other
\* error is thrown again (no response is sent); a ManagersResult becomes
\* {stockData: {..}} and a ManagersComparisonResult {stockData: [..]}.
execute(req) ==
    IF req.error # NoError
    THEN IF req.error \in KnownErrors
         THEN [kind |-> "error", shape |-> "object", error |-> req.error]
         ELSE [kind |-> "throws", shape |-> "none", error |-> req.error]
    ELSE IF req.result.kind = "single"
    THEN [kind |-> "stockData", shape |-> "object", stockData |-> stockData(req.result)]
    ELSE IF comparison(req.result.data).error # NoError
    THEN [kind |-> "throws", shape |-> "none", error |-> comparison(req.result.data).error]
    ELSE [kind |-> "stockData", shape |-> "array",
          stockData |-> comparedStockData(req.result)]

(***************************************************************************)
(* OutputProcessor.execute as a function of what its callback settles      *)
(* with: any thrown value, or a result of Managers.                        *)
(***************************************************************************)
\* What a callback can throw: the three errors execute knows, and others
\* (ReferenceError, TypeError, a thrown function).
CallbackErrors ==
    {"Connection", "NotFound", "ZodError", "ReferenceError", "TypeError", "Function"}

DrawnOutcomes ==
    {[kind |-> "outcome", error |-> e, result |-> NoResult] : e \in CallbackErrors}
    \cup {[kind |-> "outcome", error |-> NoError, result |-> res] : res \in DrawnResults}
    \cup {[kind |-> "outcome", error |-> NoError, result |-> ManagersComparisonResult(d)] :
             d \in {dd \in DrawnData : Len(dd) <= 2}}

InitOutput ==
    /\ stocks = [s \in Symbols |-> Undefined]
    /\ watchers = <<>>
    /\ reqs = [r \in Requests |-> IdleReq]
    /\ calls = 0
    /\ created = 0
    /\ lastRead = [s \in Symbols |-> Undefined]
    /\ lastQuiet = [s \in Symbols |-> Undefined]
    /\ data = NoData
    /\ out = NoOut
    /\ ManagerUntouched
    /\ input \in DrawnOutcomes
    /\ output = NoOutput

\* let response = await output.execute(...).
Execute ==
    /\ output = NoOutput
    /\ output' = execute(input)
    /\ UNCHANGED <<stocks, watchers, reqs, calls, created, lastRead, lastQuiet, data, out,
                   managerVars, input>>

NextOutput == Execute

SpecOutput == InitOutput /\ [][NextOutput]_vars

(***************************************************************************)
(* StockFetcher.fetch as a function of what the remote answers.            *)
(***************************************************************************)
\* HTTP statuses of the remote; Response.ok is status in 200..299.
Statuses == {200, 204, 301, 400, 404, 429, 500, 503}
StatusOkFrom == 200
StatusOkTo == 299
\* latestPrice values a remote payload may carry.
RemotePrices == {-5, -1, 0, 10, 25}
\* String payloads of the remote, spelled out so that includes can be computed.
RemoteTexts ==
    [UnknownSymbol |-> <<"U", "n", "k", "n", "o", "w", "n", " ", "s", "y", "m", "b", "o", "l">>,
     InvalidSymbol |-> <<"I", "n", "v", "a", "l", "i", "d", " ", "s", "y", "m", "b", "o", "l">>,
     NotFound |-> <<"N", "o", "t", " ", "f", "o", "u", "n", "d">>,
     Empty |-> <<>>]
\* The needle of response.includes(`symbol`).
SymbolWord == <<"s", "y", "m", "b", "o", "l">>

\* String.prototype.includes.
Includes(cs, needle) ==
    \E i \in 1..(Len(cs) - Len(needle) + 1) : SubSeq(cs, i, i + Len(needle) - 1) = needle

\* The body of the remote's answer: no JSON; a JSON string; a JSON number,
\* null, array or boolean; a JSON object.
RemoteBodies ==
    {[json |-> "invalid"]}
    \cup {[json |-> "string", text |-> name] : name \in DOMAIN RemoteTexts}
    \cup {[json |-> other] : other \in {"number", "null", "array", "boolean"}}
    \cup {[json |-> "object", value |-> [symbol |-> s, latestPrice |-> price]] :
             s \in Symbols, price \in RemotePrices}

DrawnRemotes ==
    {[kind |-> "remote", reachable |-> FALSE]}
    \cup {[kind |-> "remote", reachable |-> TRUE, status |-> status, body |-> body] :
             status \in Statuses, body \in RemoteBodies}

\* StockFetcher.fetch().  The network call itself rejects with TypeError;
\* onConnectionError throws the arrow function it builds, not the
\* ConnectionError that function would build (non-OK status, SyntaxError of
\* JSON.parse, a string without "symbol"); a string with "symbol" throws
\* NotFoundError; every other payload goes to new StockQuote, which rejects
\* what is no object (the loose object schema of DataContainer) and accepts
\* every object as it is.
fetch(remote) ==
    IF ~remote.reachable
    THEN [kind |-> "throws", error |-> "TypeError"]
    ELSE IF remote.status < StatusOkFrom \/ remote.status > StatusOkTo
    THEN [kind |-> "throws", error |-> "Function"]
    ELSE IF remote.body.json = "invalid"
    THEN [kind |-> "throws", error |-> "Function"]
    ELSE IF remote.body.json = "string"
    THEN IF Includes(RemoteTexts[remote.body.text], SymbolWord)
         THEN [kind |-> "throws", error |-> "NotFound"]
         ELSE [kind |-> "throws", error |-> "Function"]
    ELSE IF remote.body.json # "object"
    THEN [kind |-> "throws", error |-> "ZodError"]
    ELSE [kind |-> "quote", quote |-> StockQuote(0, remote.body.value)]

InitFetcher ==
    /\ stocks = [s \in Symbols |-> Undefined]
    /\ watchers = <<>>
    /\ reqs = [r \in Requests |-> IdleReq]
    /\ calls = 0
    /\ created = 0
    /\ lastRead = [s \in Symbols |-> Undefined]
    /\ lastQuiet = [s \in Symbols |-> Undefined]
    /\ data = NoData
    /\ out = NoOut
    /\ ManagerUntouched
    /\ input \in DrawnRemotes
    /\ output = NoOutput

\* await fetcher.fetch().
Fetch ==
    /\ output = NoOutput
    /\ output' = fetch(input)
    /\ UNCHANGED <<stocks, watchers, reqs, calls, created, lastRead, lastQuiet, data, out,
                   managerVars, input>>

NextFetcher == Fetch

SpecFetcher == InitFetcher /\ [][NextFetcher]_vars

(***************************************************************************)
(* Routes.any as a function of the request's query.                        *)
(***************************************************************************)
\* Values of a flag in the query string, spelled out so that
\* toLocaleLowerCase can be computed.
FlagTexts ==
    [true |-> <<"t", "r", "u", "e">>,
     TRUE_ |-> <<"T", "R", "U", "E">>,
     Yes |-> <<"Y", "e", "s">>,
     plus |-> <<"+">>,
     one |-> <<"1">>,
     false |-> <<"f", "a", "l", "s", "e">>,
     zero |-> <<"0">>,
     empty |-> <<>>]
\* The strings of [1, 'true', 'yes', '+']; the number 1 equals no string.
WatchTexts == {<<"t", "r", "u", "e">>, <<"y", "e", "s">>, <<"+">>}

LowerOf == [T |-> "t", R |-> "r", U |-> "u", E |-> "e", Y |-> "y", S |-> "s"]
\* String.prototype.toLocaleLowerCase.
toLocaleLowerCase(cs) ==
    [i \in 1..Len(cs) |-> IF cs[i] \in DOMAIN LowerOf THEN LowerOf[cs[i]] ELSE cs[i]]

\* A query parameter: absent, repeated (an array), or one string.
DrawnFlags ==
    {[present |-> FALSE, isArray |-> FALSE, text |-> "empty"],
     [present |-> TRUE, isArray |-> TRUE, text |-> "empty"]}
    \cup {[present |-> TRUE, isArray |-> FALSE, text |-> name] : name \in DOMAIN FlagTexts}

DrawnQueries ==
    [kind : {"query"}, stockIsArray : BOOLEAN, like : DrawnFlags, watch : DrawnFlags]

\* One round of willwatch's some(): the key is present, its value is truthy,
\* and its lower-cased form is in the list.  An array has no
\* toLocaleLowerCase: TypeError.
FlagTest(flag) ==
    IF ~flag.present THEN "no"
    ELSE IF flag.isArray THEN "throws"
    ELSE IF FlagTexts[flag.text] = <<>> THEN "no"
    ELSE IF toLocaleLowerCase(FlagTexts[flag.text]) \in WatchTexts THEN "yes"
    ELSE "no"

\* willwatch(): like is tested first, watch only if like did not match.
willwatch(query) ==
    IF FlagTest(query.like) # "no" THEN FlagTest(query.like) ELSE FlagTest(query.watch)

\* Mutation of any: an array of symbols goes to compare before the flags count.
anyArrayFirst(query) ==
    IF query.stockIsArray THEN [kind |-> "calls", op |-> "compare"]
    ELSE IF willwatch(query) = "throws" THEN [kind |-> "throws", op |-> "TypeError"]
    ELSE IF willwatch(query) = "yes" THEN [kind |-> "calls", op |-> "watch"]
    ELSE [kind |-> "calls", op |-> "read"]

\* Routes.any: this[willwatch() ? `watch` : (Array.isArray(symbols) ? `compare` : `read`)].
any(query) ==
    IF willwatch(query) = "throws" THEN [kind |-> "throws", op |-> "TypeError"]
    ELSE IF willwatch(query) = "yes" THEN [kind |-> "calls", op |-> "watch"]
    ELSE IF query.stockIsArray THEN [kind |-> "calls", op |-> "compare"]
    ELSE [kind |-> "calls", op |-> "read"]

InitRoutes ==
    /\ stocks = [s \in Symbols |-> Undefined]
    /\ watchers = <<>>
    /\ reqs = [r \in Requests |-> IdleReq]
    /\ calls = 0
    /\ created = 0
    /\ lastRead = [s \in Symbols |-> Undefined]
    /\ lastQuiet = [s \in Symbols |-> Undefined]
    /\ data = NoData
    /\ out = NoOut
    /\ ManagerUntouched
    /\ input \in DrawnQueries
    /\ output = NoOutput

\* routes.any(req).
Dispatch ==
    /\ output = NoOutput
    /\ output' = any(input)
    /\ UNCHANGED <<stocks, watchers, reqs, calls, created, lastRead, lastQuiet, data, out,
                   managerVars, input>>

NextRoutes == Dispatch

SpecRoutes == InitRoutes /\ [][NextRoutes]_vars

(***************************************************************************)
(* StockWatchers.add as a function of its arguments, on the registry of a  *)
(* new StockWatchers().                                                    *)
(***************************************************************************)
\* Values handed in as the stock: StockQuote objects, and what is none
\* (undefined, a symbol string, a plain object).
DrawnStocks ==
    {StockQuote(0, [symbol |-> s, latestPrice |-> price]) :
        s \in Symbols, price \in RemotePrices}
    \cup {Undefined, Str("DIS"), [type |-> "object", symbol |-> "DIS", latestPrice |-> 10]}
\* Strings that are no hostname or IP address (z.hostname() of Watcher).
InvalidAddresses == {"not a host!", NoAddress}

DrawnAdds ==
    [kind : {"add"}, stock : DrawnStocks, address : Addresses \cup InvalidAddresses]

InitWatchers ==
    /\ stocks = [s \in Symbols |-> Undefined]
    /\ watchers = <<>>
    /\ reqs = [r \in Requests |-> IdleReq]
    /\ calls = 0
    /\ created = 0
    /\ lastRead = [s \in Symbols |-> Undefined]
    /\ lastQuiet = [s \in Symbols |-> Undefined]
    /\ data = NoData
    /\ out = NoOut
    /\ ManagerUntouched
    /\ input \in DrawnAdds
    /\ output = NoOutput

\* watchers.add(stock, address).
Add ==
    /\ output = NoOutput
    /\ LET a == add(watchers, input.stock, input.address)
       IN  /\ watchers' = a.watchers
           /\ output' = [kind |-> "added", error |-> a.error]
    /\ UNCHANGED <<stocks, reqs, calls, created, lastRead, lastQuiet, data, out,
                   managerVars, input>>

NextWatchers == Add

SpecWatchers == InitWatchers /\ [][NextWatchers]_vars

(***************************************************************************)
(* ProcessingError as a function of the value it wraps.                    *)
(***************************************************************************)
\* The default of the fields message (the HTTP status) and code.
DefaultStatus == 500
\* The statuses the constructor takes over from the wrapped error's code.
StatusFrom == 400
StatusTo == 599
\* Numbers a code may be.
CodeNumbers == {0, 200, 399, 400, 404, 500, 599, 600}
\* Strings a code may be, spelled out so that Number can be computed.
CodeTexts ==
    [s404 |-> <<"4", "0", "4">>,
     s600 |-> <<"6", "0", "0">>,
     s599 |-> <<"5", "9", "9">>,
     ENOENT |-> <<"E", "N", "O", "E", "N", "T">>,
     empty |-> <<>>]
DigitOf == [d \in {"0", "1", "2", "3", "4", "5", "6", "7", "8", "9"} |->
               CASE d = "0" -> 0 [] d = "1" -> 1 [] d = "2" -> 2 [] d = "3" -> 3
                 [] d = "4" -> 4 [] d = "5" -> 5 [] d = "6" -> 6 [] d = "7" -> 7
                 [] d = "8" -> 8 [] d = "9" -> 9]

\* The code property of the wrapped object: missing, an integer, a number
\* with a fraction (value + 1/2), or a string.
DrawnCodes ==
    {[type |-> "undefined"]}
    \cup {[type |-> "number", value |-> n, integer |-> TRUE] : n \in CodeNumbers}
    \cup {[type |-> "number", value |-> n, integer |-> FALSE] : n \in {404, 500}}
    \cup {[type |-> "string", text |-> name] : name \in DOMAIN CodeTexts}

\* What ProcessingError is constructed from: a string, null, or an object
\* with or without name, message and code.
DrawnErrors ==
    {[kind |-> "error", type |-> "string"], [kind |-> "error", type |-> "null"]}
    \cup [kind : {"error"}, type : {"object"}, named : BOOLEAN, worded : BOOLEAN,
           code : DrawnCodes]

\* The decimal value of a string of digits.
RECURSIVE Decimal(_)
Decimal(cs) ==
    IF cs = <<>> THEN 0
    ELSE 10 * Decimal(SubSeq(cs, 1, Len(cs) - 1)) + DigitOf[cs[Len(cs)]]

\* Number(error.code): undefined gives NaN, a number itself, the empty string
\* 0, a string of digits its value, any other string NaN.
Number(code) ==
    IF code.type = "undefined"
    THEN [nan |-> TRUE, integer |-> FALSE, value |-> 0]
    ELSE IF code.type = "number"
    THEN [nan |-> FALSE, integer |-> code.integer, value |-> code.value]
    ELSE IF \A i \in 1..Len(CodeTexts[code.text]) : CodeTexts[code.text][i] \in DOMAIN DigitOf
    THEN [nan |-> FALSE, integer |-> TRUE, value |-> Decimal(CodeTexts[code.text])]
    ELSE [nan |-> TRUE, integer |-> FALSE, value |-> 0]

\* Whether error.code is truthy: not missing, not 0, not the empty string.
CodeTruthy(code) ==
    /\ code.type # "undefined"
    /\ code.type = "number" => (code.value # 0 \/ ~code.integer)
    /\ code.type = "string" => CodeTexts[code.text] # <<>>

\* Mutation of ProcessingError: the status is the code's number, whatever it is.
ProcessingErrorAnyStatus(error) ==
    IF error.type = "null" THEN [kind |-> "throws", error |-> "TypeError"]
    ELSE IF error.type = "string"
    THEN [kind |-> "ProcessingError", message |-> DefaultStatus,
          code |-> [type |-> "number", value |-> DefaultStatus, integer |-> TRUE]]
    ELSE [kind |-> "ProcessingError",
          message |-> IF Number(error.code).nan THEN DefaultStatus
                      ELSE Number(error.code).value,
          code |-> IF CodeTruthy(error.code) THEN error.code
                   ELSE [type |-> "number", value |-> DefaultStatus, integer |-> TRUE]]

\* new ProcessingError(error).  The fields start as message = 500 and
\* code = 500; for an object (typeof includes "obj", which null does too:
\* reading null.name throws TypeError) a truthy code is copied and message
\* becomes Number(error.code) if that is an integer in 400..599.
ProcessingError(error) ==
    IF error.type = "null" THEN [kind |-> "throws", error |-> "TypeError"]
    ELSE IF error.type = "string"
    THEN [kind |-> "ProcessingError", message |-> DefaultStatus,
          code |-> [type |-> "number", value |-> DefaultStatus, integer |-> TRUE]]
    ELSE LET codeNum == Number(error.code)
         IN  [kind |-> "ProcessingError",
              message |-> IF /\ ~codeNum.nan
                             /\ codeNum.integer
                             /\ codeNum.value >= StatusFrom
                             /\ codeNum.value <= StatusTo
                          THEN codeNum.value
                          ELSE DefaultStatus,
              code |-> IF CodeTruthy(error.code) THEN error.code
                       ELSE [type |-> "number", value |-> DefaultStatus, integer |-> TRUE]]

InitError ==
    /\ stocks = [s \in Symbols |-> Undefined]
    /\ watchers = <<>>
    /\ reqs = [r \in Requests |-> IdleReq]
    /\ calls = 0
    /\ created = 0
    /\ lastRead = [s \in Symbols |-> Undefined]
    /\ lastQuiet = [s \in Symbols |-> Undefined]
    /\ data = NoData
    /\ out = NoOut
    /\ ManagerUntouched
    /\ input \in DrawnErrors
    /\ output = NoOutput

\* this.content = new Formats.error(error).
Wrap ==
    /\ output = NoOutput
    /\ output' = ProcessingError(input)
    /\ UNCHANGED <<stocks, watchers, reqs, calls, created, lastRead, lastQuiet, data, out,
                   managerVars, input>>

NextError == Wrap

SpecError == InitError /\ [][NextError]_vars

(***************************************************************************)
(* Properties.                                                                 *)
(***************************************************************************)
\* The errors a read can fail with: the symbol check and the transport.
ReadErrors == TransportErrors \cup {"ZodError"}

\* A read request that has finished with a result.
ReadDone(r) ==
    reqs[r].op = "read" /\ reqs[r].pc = "done" /\ reqs[r].error = NoError

\* A watch request that has finished and whose reads did not fail.
WatchDone(r) ==
    reqs[r].op = "watch" /\ reqs[r].pc = "done" /\ reqs[r].error \notin ReadErrors

\* C1 (as stated): a read(S) that starts after an earlier read(S) has finished,
\* with no unload(S) in between, returns the quote the earlier read returned
\* and calls the transport no further time.
C1_SecondReadSameQuote ==
    \A r \in Requests :
        (ReadDone(r) /\ reqs[r].prev # Undefined)
            => (reqs[r].result.stocks = reqs[r].prev /\ reqs[r].ncalls = 0)

\* C1 (amended): a read(S) that starts after an earlier read(S) has finished,
\* with no unload(S) and no store of a fetched quote for S in between, returns
\* the quote the earlier read returned and calls the transport no further time.
C1_SecondReadSameQuoteQuiet ==
    \A r \in Requests :
        (ReadDone(r) /\ reqs[r].prevQuiet # Undefined)
            => /\ reqs[r].result.stocks = reqs[r].prevQuiet
               /\ reqs[r].ncalls = 0

\* C1 witness: a second read(S) has returned the quote cached by the first.
C1_Witness ==
    \E r \in Requests :
        /\ ReadDone(r)
        /\ reqs[r].prevQuiet # Undefined
        /\ reqs[r].result.stocks = stocks[reqs[r].names[1]]

\* The positions of the registry's Watchers of an address.
EntriesOf(address) == {i \in 1..Len(watchers) : watchers[i].address = address}

\* How often the quote cached under a symbol occurs in a stock.
Occurrences(stock, symbol) ==
    Cardinality({k \in 1..Len(stock) : stock[k] = stocks[symbol]})

\* C3: when only address a has watched, after watch(S, a) (the first and the
\* repeated one alike) the registry holds exactly one Watcher for a, whose
\* stock is the one quote of S, and the result reports one watcher.
C3_WatchTwiceOneEntry ==
    \A r \in Requests :
        (/\ WatchDone(r)
         /\ ~reqs[r].isArray
         /\ \A i \in 1..Len(watchers) : watchers[i].address = reqs[r].address)
            => /\ reqs[r].error = NoError
               /\ Cardinality(EntriesOf(reqs[r].address)) = 1
               /\ \A i \in EntriesOf(reqs[r].address) :
                      watchers[i].stock = <<stocks[reqs[r].names[1]]>>
               /\ reqs[r].result.kind = "single"
               /\ Len(reqs[r].result.watchers) = 1

\* C5: after an address has watched k distinct symbols one after the other
\* (the k symbols of one finished watch), the registry holds exactly one
\* Watcher for it, whose stock holds the quote of each of them once, and the
\* addresses view holds that address and one element per watching address.
C5_OneEntryManyStocks ==
    \A r \in Requests :
        (WatchDone(r) /\ reqs[r].names # <<>>)
            => /\ Cardinality(EntriesOf(reqs[r].address)) = 1
               /\ \A i \in EntriesOf(reqs[r].address) :
                      \A k \in 1..Len(reqs[r].names) :
                          Occurrences(watchers[i].stock, reqs[r].names[k]) = 1
               /\ addresses(watchers).error = NoError
               /\ addresses(watchers).value =
                      {watchers[i].address : i \in 1..Len(watchers)}

\* The value popular() reports under a name.
WatchersDiff(name) ==
    LET at == CHOOSE i \in 1..Len(out.watchers) : out.watchers[i].name = name
    IN  out.watchers[at].value

\* C6: for a comparison of two entries A, B with wA and wB watchers, the
\* getter reports wB - wA under A and wA - wB under B (equal and opposite).
C6_RelativeLikes ==
    (out # NoOut /\ Len(data) = 2)
        => LET wA == Len(data[1].value.watchers)
               wB == Len(data[2].value.watchers)
           IN  /\ out.error = NoError
               /\ names(out.watchers) = names(data)
               /\ WatchersDiff(data[1].name) = wB - wA
               /\ WatchersDiff(data[2].name) = wA - wB
               /\ WatchersDiff(data[1].name) + WatchersDiff(data[2].name) = 0

\* C6 witness: a two-entry comparison with different watcher counts was read.
C6_Witness ==
    /\ out # NoOut
    /\ Len(data) = 2
    /\ Len(data[1].value.watchers) # Len(data[2].value.watchers)
    /\ WatchersDiff(data[1].name) # 0

\* C7: for a comparison of two entries whose quotes hold numeric latestPrice
\* pA, pB, the stocks differences under A hold latestPrice = pB - pA (and
\* under B pA - pB).
C7_PriceDifference ==
    (out # NoOut /\ Len(data) = 2)
        => /\ [field |-> "latestPrice",
               value |-> data[2].value.stocks.latestPrice - data[1].value.stocks.latestPrice]
                  \in out.stocks[1].value
           /\ [field |-> "latestPrice",
               value |-> data[1].value.stocks.latestPrice - data[2].value.stocks.latestPrice]
                  \in out.stocks[2].value

\* C8: a single-symbol watch(S, a) whose read succeeded returns a
\* ManagersResult of S whose watchers include the Watcher of a.
C8_WatchReturnsOwnEntry ==
    \A r \in Requests :
        (WatchDone(r) /\ ~reqs[r].isArray)
            => /\ reqs[r].result.kind = "single"
               /\ \E k \in 1..Len(reqs[r].result.watchers) :
                      watchers[reqs[r].result.watchers[k]].address = reqs[r].address

\* C9: watch over more than one symbol returns a comparison with an entry for
\* every supplied symbol; watch over exactly one symbol (alone or as a
\* one-element array) returns a single ManagersResult.
C9_WatchResultKind ==
    \A r \in Requests :
        WatchDone(r)
            => /\ Len(reqs[r].names) > 1
                    => /\ reqs[r].result.kind = "comparison"
                       /\ \A k \in 1..Len(reqs[r].names) :
                              \E e \in 1..Len(reqs[r].result.data) :
                                  reqs[r].result.data[e].name = reqs[r].names[k]
               /\ Len(reqs[r].names) = 1 => reqs[r].result.kind = "single"

\* The first two symbols of an input, and the keys they give in input order.
FirstTwo(symbols) == {symbols[k] : k \in {k \in 1..Len(symbols) : k <= 2}}

KeysInOrder(symbols) ==
    IF symbols = <<>> THEN <<>>
    ELSE IF Len(symbols) = 1 \/ symbols[1] = symbols[2] THEN <<symbols[1]>>
    ELSE <<symbols[1], symbols[2]>>

C11_WatchNoRollback ==
    \A r \in Requests :
        (/\ reqs[r].op = "watch"
         /\ reqs[r].pc = "done"
         /\ reqs[r].isArray
         /\ Len(reqs[r].names) >= 2
         /\ reqs[r].names[1] \in ValidSymbols
         /\ reqs[r].names[2] \notin ValidSymbols
         /\ (reqs[r].error \notin TransportErrors \/ reqs[r].index > 1))
            => /\ reqs[r].error = "ZodError"
               /\ reqs[r].index = 2
               /\ \E i \in EntriesOf(reqs[r].address) :
                      /\ Occurrences(watchers[i].stock, reqs[r].names[1]) = 1
                      /\ Len(watchers[i].stock) = 1

\* A symbol of invalid shape, by its length alone.
InvalidShape(symbol) ==
    \/ Len(SymbolChars[symbol]) < SymbolMinLen
    \/ Len(SymbolChars[symbol]) > SymbolMaxLen

\* A request settles in this step with the given error.
FailsWith(r, error) ==
    /\ reqs[r].pc # "done"
    /\ reqs'[r].pc = "done"
    /\ reqs'[r].error = error

\* C12: a read of a symbol of invalid shape fails with the validation error
\* and never calls the transport; a read fails with NotFound only after its
\* transport call; no cache entry is made in either case.
C12_ValidationBeforeTransport ==
    /\ [](\A r \in Requests :
            reqs[r].op = "read"
                => /\ InvalidShape(reqs[r].names[1])
                        => /\ reqs[r].pc = "done"
                           /\ reqs[r].error = "ZodError"
                           /\ reqs[r].ncalls = 0
                           /\ stocks[reqs[r].names[1]] = Undefined
                   /\ (reqs[r].pc = "done" /\ reqs[r].error = "NotFound")
                        => /\ reqs[r].ncalls = 1
                           /\ ~InvalidShape(reqs[r].names[1]))
    /\ [][\A r \in Requests :
            (reqs'[r].op = "read" /\ (FailsWith(r, "NotFound") \/ FailsWith(r, "ZodError")))
                => stocks' = stocks]_vars

\* C12 witness: a read of a 7-letter symbol has failed without a transport
\* call, after an earlier read failed at the transport; nothing is cached.
C12_Witness ==
    \E r \in Requests :
        /\ reqs[r].op = "read"
        /\ reqs[r].pc = "done"
        /\ InvalidShape(reqs[r].names[1])
        /\ reqs[r].error = "ZodError"
        /\ reqs[r].ncalls = 0
        /\ calls = 1
        /\ created = 0
        /\ \A other \in Requests \ {r} : reqs[other].op = "idle"
        /\ \A s \in Symbols : stocks[s] = Undefined

\* A request arrives in slot r in this step.
Arrives(r, op) == reqs[r].op = "idle" /\ reqs'[r].op = op

\* The reads of the requests that wait for the transport to answer for a symbol.
InFlight(symbol) ==
    {rp \in Requests \X {1, 2} :
        rp[2] \in reqs[rp[1]].wait /\ WaitSymbol(reqs[rp[1]], rp[2]) = symbol}

C14_CachedUntilEvicted ==
    [][\A s \in Symbols :
          stocks[s] # Undefined => (stocks'[s] = stocks[s] \/ Evict(s))]_vars

\* C14 (amended): a cached entry is removed only by unload of its symbol and
\* replaced only by the answer to a fetch of that symbol that missed and is
\* still in flight; no transport call is started for a cached symbol, and a
\* read that arrives while the symbol is cached returns the cached entry.
C14_CachedUntilEvictedOrRace ==
    [][/\ \A s \in Symbols :
              (stocks[s] # Undefined /\ stocks'[s] # stocks[s])
                  => \/ Evict(s)
                     \/ /\ InFlight(s) # {}
                        /\ stocks'[s] # Undefined
                        /\ stocks'[s].ref = created + 1
                        /\ created' = created + 1
       /\ \A r \in Requests :
              reqs'[r].ncalls > (IF reqs[r].op = "idle" THEN 0 ELSE reqs[r].ncalls)
                  => \A p \in reqs'[r].wait :
                        stocks'[WaitSymbol(reqs'[r], p)] = Undefined
       /\ \A r \in Requests :
              (Arrives(r, "read") /\ stocks[reqs'[r].names[1]] # Undefined)
                  => /\ reqs'[r].pc = "done"
                     /\ reqs'[r].result.stocks = stocks[reqs'[r].names[1]]
                     /\ reqs'[r].ncalls = 0]_vars

\* C14 witness: a read was served the cached entry while a fetch of the same
\* symbol, which had missed, is still in flight.
C14_Witness ==
    \E r \in Requests :
        /\ ReadDone(r)
        /\ reqs[r].ncalls = 0
        /\ reqs[r].result.stocks = stocks[reqs[r].names[1]]
        /\ InFlight(reqs[r].names[1]) # {}

\* C15: a read of an uncached symbol calls the transport although another
\* fetch of that symbol is in flight, and every answer is stored over what the
\* cache holds: the cache keeps the quote of the fetch that completed last.
C15_DuplicateFetchLastWins ==
    [][/\ \A r \in Requests, p \in 1..2, payload \in Payloads :
              RespondQuote(r, p, payload)
                  => stocks'[WaitSymbol(reqs[r], p)] = StockQuote(created + 1, payload)
       /\ \A r \in Requests :
              (/\ Arrives(r, "read")
               /\ stocks[reqs'[r].names[1]] = Undefined
               /\ InFlight(reqs'[r].names[1]) # {})
                  => /\ reqs'[r].wait = {1}
                     /\ calls' = calls + 1
       /\ \A r \in Requests :
              (/\ Arrives(r, "compare")
               /\ Len(reqs'[r].names) >= 2
               /\ reqs'[r].names[1] = reqs'[r].names[2]
               /\ reqs'[r].names[1] \in ValidSymbols
               /\ stocks[reqs'[r].names[1]] = Undefined)
                  => /\ reqs'[r].wait = {1, 2}
                     /\ calls' = calls + 2]_vars

\* C15 witness: a comparison of a symbol with itself made two transport
\* calls, both were answered, and the cache holds the second answer.
C15_Witness ==
    \E r \in Requests :
        /\ reqs[r].op = "compare"
        /\ reqs[r].pc = "done"
        /\ reqs[r].error = NoError
        /\ Len(reqs[r].names) >= 2
        /\ reqs[r].names[1] = reqs[r].names[2]
        /\ reqs[r].ncalls = 2
        /\ created = 2
        /\ stocks[reqs[r].names[1]].ref = 2

\* C16: compare starts its (at most two) reads together, has no result
\* before every read has completed, and when a read fails it fails with that
\* error and has no ManagersComparisonResult.
C16_CompareWaitsForBoth ==
    /\ [](\A r \in Requests :
            reqs[r].op = "compare"
                => /\ reqs[r].pc # "done" => reqs[r].result = NoResult
                   /\ (reqs[r].pc = "done" /\ reqs[r].error # NoError)
                        => reqs[r].result = NoResult
                   /\ (reqs[r].pc = "done" /\ reqs[r].error = NoError)
                        => /\ reqs[r].wait = {}
                           /\ reqs[r].result.kind = "comparison"
                           /\ \A e \in 1..Len(reqs[r].result.data) :
                                  reqs[r].result.data[e].value # NoResult)
    /\  [][/\ \A r \in Requests, p \in 1..2, e \in TransportErrors :
                (RespondError(r, p, e) /\ reqs[r].op = "compare")
                    => /\ reqs'[r].pc = "done"
                       /\ reqs'[r].error = e
                       /\ reqs'[r].result = NoResult
           /\ \A r \in Requests :
                (/\ Arrives(r, "compare")
                 /\ Len(reqs'[r].names) >= 2
                 /\ \A k \in 1..2 : /\ reqs'[r].names[k] \in ValidSymbols
                                    /\ stocks[reqs'[r].names[k]] = Undefined)
                    => /\ reqs'[r].pc = "final"
                       /\ reqs'[r].wait = {1, 2}
                       /\ calls' = calls + 2]_vars

\* C16 witness: a comparison of two symbols has failed with the error of one
\* read while the other read is still waiting for the transport.
C16_Witness ==
    \E r \in Requests :
        /\ reqs[r].op = "compare"
        /\ reqs[r].pc = "done"
        /\ reqs[r].error = "NotFound"
        /\ reqs[r].ncalls = 2
        /\ reqs[r].wait # {}
        /\ reqs[r].result = NoResult

\* What unload has done in every case: the entry is gone as long as nothing
\* is stored afterwards, and the result is true without a deletion hook and
\* the hook's return value with one.
UnloadRemovesAndReturns ==
    /\ unloaded.quiet => stocks[unloaded.symbol] = Undefined
    /\ unloaded.called
         => /\ ~callbacks.deletion.installed => unloaded.returned = TRUE
            /\ callbacks.deletion.installed
                 => unloaded.returned = callbacks.deletion.returns

\* A call misses and invokes the fetch capability (the fetch hook if one is
\* installed, else the transport).
MissesAndFetches(c) ==
    /\ ~fetches[c].hit
    /\ fetches[c].nfetch + fetches[c].ncalls >= 1

\* C17 (as stated): unload removes the entry whatever the hook returns and
\* returns true or the hook's value, and the first fetch of the (well-formed)
\* symbol called after the unload is a miss that fetches.
C17_UnloadThenMiss ==
    /\ UnloadRemovesAndReturns
    /\ \A c \in Fetches :
          (fetches[c].afterUnload /\ fetches[c].symbol \in ValidSymbols)
              => MissesAndFetches(c)

\* C17 (amended): as above, for the first fetch of the symbol called after
\* the unload when nothing was stored under the symbol in between.
C17_UnloadThenMissQuiet ==
    /\ UnloadRemovesAndReturns
    /\ \A c \in Fetches :
          (fetches[c].afterUnloadQuiet /\ fetches[c].symbol \in ValidSymbols)
              => MissesAndFetches(c)

\* C17 witness: a cached symbol was unloaded with a deletion hook that
\* returned false, and the next fetch of it has called the transport.
C17_Witness ==
    /\ callbacks.deletion.installed
    /\ ~callbacks.deletion.returns
    /\ ~callbacks.fetch.installed
    /\ unloaded.called
    /\ ~unloaded.returned
    /\ created = 1
    /\ \E c \in Fetches :
          /\ fetches[c].afterUnloadQuiet
          /\ fetches[c].symbol = unloaded.symbol
          /\ fetches[c].pc = "transport"
          /\ fetches[c].ncalls = 1
          /\ calls = 2

\* C18 (as stated): with a downloaded hook installed, every call that has
\* succeeded, hit or miss, invoked it exactly once, and a failed call did not.
C18_DownloadedOncePerSuccess ==
    callbacks.downloaded
        => \A c \in Fetches :
              fetches[c].pc = "done"
                  => /\ fetches[c].error = NoError => fetches[c].ndownloaded = 1
                     /\ fetches[c].error # NoError => fetches[c].ndownloaded = 0

\* C18 (amended): with a downloaded hook installed, every call that has
\* succeeded on a cache miss invoked it exactly once; a cache hit and a failed
\* call did not invoke it.
C18_DownloadedOncePerMiss ==
    \A c \in Fetches :
        /\ ~callbacks.downloaded => fetches[c].ndownloaded = 0
        /\ (callbacks.downloaded /\ fetches[c].pc = "done")
             => /\ (fetches[c].error = NoError /\ ~fetches[c].hit)
                     => fetches[c].ndownloaded = 1
                /\ fetches[c].hit => fetches[c].ndownloaded = 0
                /\ fetches[c].error # NoError => fetches[c].ndownloaded = 0

\* C18 witness: with the hook installed, a call has fetched its quote from
\* the transport, invoked the hook once and returned the quote.
C18_Witness ==
    /\ callbacks.downloaded
    /\ \E c \in Fetches :
          /\ fetches[c].pc = "done"
          /\ fetches[c].error = NoError
          /\ ~fetches[c].hit
          /\ fetches[c].ncalls = 1
          /\ fetches[c].ndownloaded = 1
          /\ fetches[c].value # Undefined

\* C19 (as stated): a read that succeeded is answered {stockData: {stock,
\* price, likes}} with the requested symbol, the quote's latestPrice and the
\* number of watchers of the result.
C19_SingleResponse ==
    \A r \in Requests :
        (reqs[r].pc = "done" /\ reqs[r].error = NoError /\ reqs[r].result.kind = "single")
            => /\ execute(reqs[r]).kind = "stockData"
               /\ execute(reqs[r]).shape = "object"
               /\ execute(reqs[r]).stockData =
                      [stock |-> reqs[r].names[1],
                       price |-> reqs[r].result.stocks.latestPrice,
                       likes |-> Len(reqs[r].result.watchers)]

\* C19 (amended): as above, with the symbol carried by the quote (the one the
\* transport echoed) as stock, which is the requested symbol when the
\* transport echoes it.
C19_SingleResponseEchoed ==
    \A r \in Requests :
        (reqs[r].pc = "done" /\ reqs[r].error = NoError /\ reqs[r].result.kind = "single")
            => /\ execute(reqs[r]).kind = "stockData"
               /\ execute(reqs[r]).shape = "object"
               /\ execute(reqs[r]).stockData =
                      [stock |-> stocks[reqs[r].names[1]].symbol,
                       price |-> stocks[reqs[r].names[1]].latestPrice,
                       likes |-> Cardinality({i \in 1..Len(watchers) :
                                    Occurrences(watchers[i].stock, reqs[r].names[1]) > 0})]
               /\ execute(reqs[r]).stockData.likes = Len(reqs[r].result.watchers)
               /\ execute(reqs[r]).stockData.price \in TransportPrices

\* C19 witness: a read has succeeded with a quote that carries the requested
\* symbol, and its response reports that symbol and no likes.
C19_Witness ==
    \E r \in Requests :
        /\ ReadDone(r)
        /\ reqs[r].ncalls = 1
        /\ execute(reqs[r]).kind = "stockData"
        /\ execute(reqs[r]).stockData.stock = reqs[r].names[1]
        /\ execute(reqs[r]).stockData.likes = 0

\* C20: a request for two distinct well-formed symbols, with or without the
\* like flag, whose reads did not fail is answered {stockData: [e1, e2]},
\* element k made from the k-th symbol's result, each element carrying
\* exactly stock, price and rel_likes.
C20_ComparedResponse ==
    \A r \in Requests :
        (/\ reqs[r].pc = "done"
         /\ reqs[r].op \in {"compare", "watch"}
         /\ reqs[r].isArray
         /\ Len(reqs[r].names) = 2
         /\ reqs[r].names[1] # reqs[r].names[2]
         /\ reqs[r].error \notin ReadErrors)
            => /\ execute(reqs[r]).kind = "stockData"
               /\ execute(reqs[r]).shape = "array"
               /\ Len(execute(reqs[r]).stockData) = 2
               /\ \A k \in 1..2 :
                      /\ DOMAIN execute(reqs[r]).stockData[k] = {"stock", "price", "rel_likes"}
                      /\ reqs[r].result.data[k].name = reqs[r].names[k]
                      /\ execute(reqs[r]).stockData[k].stock =
                             reqs[r].result.data[k].value.stocks.symbol
                      /\ execute(reqs[r]).stockData[k].price \in TransportPrices
                      /\ execute(reqs[r]).stockData[k].rel_likes \in Int

\* C21: when the callback fails, execute answers {error: ...} carrying that
\* error if it is a Connection, NotFound or validation error and throws the
\* error again otherwise; in neither case does it answer a stockData payload.
C21_KnownErrorsAnswered ==
    (output # NoOutput /\ input.error # NoError)
        => /\ input.error \in {"Connection", "NotFound", "ZodError"}
                => (output.kind = "error" /\ output.error = input.error)
           /\ input.error \notin {"Connection", "NotFound", "ZodError"}
                => (output.kind = "throws" /\ output.error = input.error)
           /\ output.kind # "stockData"

\* C21 witness: a callback that failed with an error execute does not know
\* has had its error thrown again.
C21_Witness ==
    /\ input.kind = "outcome"
    /\ input.error = "ReferenceError"
    /\ output.kind = "throws"

\* The remote's answer is a non-OK status, a body that is no JSON, or a JSON
\* string that does not name the symbol.
RemoteFailed(remote) ==
    /\ remote.reachable
    /\ \/ remote.status \notin StatusOkFrom..StatusOkTo
       \/ remote.body.json = "invalid"
       \/ /\ remote.body.json = "string"
          /\ ~Includes(RemoteTexts[remote.body.text], SymbolWord)

\* C22: the transport's outcome is a Quote (on an object payload), a NotFound
\* error, or a Connection error; the latter whenever the remote returns a
\* non-OK status, an unparseable body or an unexpected string.
C22_TransportOutcomes ==
    output # NoOutput
        => /\ \/ output.kind = "quote" /\ input.body.json = "object"
              \/ output.kind = "throws" /\ output.error \in {"NotFound", "Connection"}
           /\ RemoteFailed(input) => (output.kind = "throws" /\ output.error = "Connection")

\* C24: every Quote the transport constructs has a shape-valid symbol and a
\* non-negative price; properties that violate this are rejected with a
\* validation error.
C24_QuotesValid ==
    output # NoOutput
        => /\ output.kind = "quote"
                => /\ StockSybmolRegex(output.quote.symbol)
                   /\ output.quote.latestPrice >= 0
           /\ (/\ input.reachable
               /\ input.status \in StatusOkFrom..StatusOkTo
               /\ input.body.json = "object"
               /\ \/ ~StockSybmolRegex(input.body.value.symbol)
                  \/ input.body.value.latestPrice < 0)
                => (output.kind = "throws" /\ output.error = "ZodError")

\* A flag that is present with a truthy value.
Truthy(flag) == flag.present /\ (flag.isArray \/ FlagTexts[flag.text] # <<>>)

\* A flag that is one string whose lower-cased form is true, yes or +.
Accepted(flag) ==
    /\ flag.present
    /\ ~flag.isArray
    /\ toLocaleLowerCase(FlagTexts[flag.text]) \in
           {<<"t", "r", "u", "e">>, <<"y", "e", "s">>, <<"+">>}

C25_AddCreatesEntry ==
    [][\A r \in Requests, p \in 1..2, payload \in Payloads :
          (RespondQuote(r, p, payload) /\ reqs[r].pc = "loop" /\ reqs[r].index = 1)
              => LET quote == stocks'[WaitSymbol(reqs[r], p)]
                 IN  /\ EntriesOf(reqs[r].address) = {}
                         => \E i \in 1..Len(watchers') :
                                /\ watchers'[i].address = reqs[r].address
                                /\ watchers'[i].stock[1] = quote
                     /\ \A i \in 1..Len(watchers') :
                            \A j, k \in 1..Len(watchers'[i].stock) :
                                watchers'[i].stock[j].symbol = watchers'[i].stock[k].symbol
                                    => j = k]_vars

\* C26: add with a stock that is no Quote, or with an address that is no
\* hostname or IP address, fails with a validation error and leaves the
\* registry as it was.
C26_AddValidates ==
    (/\ output # NoOutput
     /\ input.stock.type # "StockQuote" \/ input.address \in InvalidAddresses)
        => /\ output.error = "ZodError"
           /\ watchers = <<>>

\* C29: a quote that the transport returns for a requested symbol is stored
\* under exactly that symbol, whatever symbol the quote itself carries (no
\* other key of the cache changes), so that a getOrFetch of the requested
\* symbol is a hit from then on; and a read that has finished returned the
\* quote held under the symbol it requested.
C29_StoredUnderRequested ==
    /\  [][\A r \in Requests, p \in 1..2, payload \in Payloads :
              RespondQuote(r, p, payload)
                  => LET symbol == WaitSymbol(reqs[r], p)
                     IN  /\ stocks'[symbol] # Undefined
                         /\ stocks'[symbol].symbol = payload.symbol
                         /\ stocks'[symbol].ref = created'
                         /\ \A s \in Symbols \ {symbol} : stocks'[s] = stocks[s]
                         /\ FetchStart(stocks', symbol).kind = "hit"
                         /\ FetchStart(stocks', symbol).quote = stocks'[symbol]]_vars
    /\ [](\A r \in Requests :
            ReadDone(r)
                => /\ reqs[r].result.stocks # Undefined
                   /\ reqs[r].result.stocks = stocks[reqs[r].names[1]])

\* C29 witness: DIS was requested and the transport answered with a quote
\* that carries NKE; the quote is cached under DIS, nothing is cached under
\* NKE, and a later read of DIS has hit the cache.
C29_Witness ==
    /\ stocks["DIS"] # Undefined
    /\ stocks["DIS"].symbol = "NKE"
    /\ stocks["NKE"] = Undefined
    /\ \E r \in Requests :
          /\ ReadDone(r)
          /\ reqs[r].names = <<"DIS">>
          /\ reqs[r].ncalls = 0
          /\ reqs[r].result.stocks = stocks["DIS"]

\* The watcher count of the entry at a 0-based position of data.
CountAt(position) == Len(data[position + 1].value.watchers)

\* C30 (as stated): for N >= 2 entries the getter yields, for every index i,
\* the watcher count of its partner minus its own, the partner being at
\* position N-1-i for i = 0 and at position N-i otherwise.
C30_PartnerRule ==
    (out # NoOut /\ Len(data) >= 2)
        => /\ out.error = NoError
           /\ \A i \in 0..(Len(data) - 1) :
                  out.watchers[i + 1].value =
                      CountAt(IF i = 0 THEN Len(data) - 1 - i ELSE Len(data) - i) - CountAt(i)

\* C30 (amended): for two entries the getter yields, for both indices i, the
\* watcher count of its partner minus its own, the partner being at position
\* N-1 for i = 0 and at position i-1 otherwise (the other entry).
C30_PartnerRuleOther ==
    (out # NoOut /\ Len(data) = 2)
        => /\ out.error = NoError
           /\ Len(out.watchers) = 2
           /\ \A i \in 0..1 :
                  /\ out.watchers[i + 1].name = data[i + 1].name
                  /\ out.watchers[i + 1].value =
                         CountAt(IF i = 0 THEN Len(data) - 1 ELSE i - 1) - CountAt(i)

\* C30 witness: a comparison of an entry with no watcher and one with two
\* was read: index 1 reports -2, not the 0 of an entry paired with itself.
C30_Witness ==
    /\ out # NoOut
    /\ Len(data) = 2
    /\ CountAt(0) = 0
    /\ CountAt(1) = 2
    /\ out.watchers[1].value = 2
    /\ out.watchers[2].value = -2

\* The ManagersResult objects a request holds: one per closing read that has
\* its quote.
Held(req) == {q \in DOMAIN req.parts : req.parts[q] # NoResult}

\* C31: a ManagersResult that a compare holds for one symbol while its other
\* read is outstanding keeps its quote and its watchers whatever runs in
\* between (reads, watches, compares, evictions, stores of other requests),
\* and enters the comparison as it was built.
C31_SnapshotImmutable ==
    [][\A r \in Requests :
          reqs[r].pc = "final"
              => /\ reqs'[r].pc = "final"
                      => \A q \in Held(reqs[r]) : reqs'[r].parts[q] = reqs[r].parts[q]
                 /\ (/\ reqs'[r].pc = "done"
                     /\ reqs'[r].error = NoError
                     /\ FinalIsComparison(reqs[r])
                     /\ Len(reqs'[r].result.data) = 2)
                      => \A q \in Held(reqs[r]) :
                             reqs'[r].result.data[q].value = reqs[r].parts[q]]_vars

\* C31 witness: a compare has finished whose first result holds a quote that
\* is no longer the one cached under its symbol.
C31_Witness ==
    \E r \in Requests :
        /\ reqs[r].op = "compare"
        /\ reqs[r].pc = "done"
        /\ reqs[r].error = NoError
        /\ Len(reqs[r].result.data) = 2
        /\ reqs[r].ncalls = 1
        /\ reqs[r].result.data[1].value.stocks # Undefined
        /\ reqs[r].result.data[1].value.stocks # stocks[reqs[r].names[1]]
        /\ reqs[r].result.data[1].value.watchers = <<>>

\* C32: with a fetch hook installed that yields a quote, a call of fetch that
\* missed the cache has not called the transport and returns a quote.
C32_FetchHookQuoteReturned ==
    (callbacks.fetch.installed /\ callbacks.fetch.truthy)
        => \A c \in Fetches :
              (fetches[c].pc = "done" /\ ~fetches[c].hit /\ fetches[c].error = NoError)
                  => /\ fetches[c].nfetch = 1
                     /\ fetches[c].ncalls = 0
                     /\ fetches[c].value # Undefined

\* C33 (as stated): the status of a ProcessingError is an integer in
\* 400..599: the wrapped object's code if that code is an integer in
\* 400..599, and 500 in every other case.
C33_StatusFromIntegerCode ==
    (output # NoOutput /\ output.kind = "ProcessingError")
        => /\ output.message \in 400..599
           /\ output.message =
                  IF /\ input.type = "object"
                     /\ input.code.type = "number"
                     /\ input.code.integer
                     /\ input.code.value \in 400..599
                  THEN input.code.value
                  ELSE 500

\* C33 (amended): the status of a ProcessingError is an integer in 400..599:
\* the number the wrapped object's code converts to (the code itself, or the
\* value of a string of digits) if that is an integer in 400..599, and 500 in
\* every other case.
C33_StatusFromConvertedCode ==
    (output # NoOutput /\ output.kind = "ProcessingError")
        => /\ output.message \in 400..599
           /\ output.message =
                  IF input.type # "object" THEN 500
                  ELSE IF /\ input.code.type = "number"
                          /\ input.code.integer
                          /\ input.code.value \in 400..599
                  THEN input.code.value
                  ELSE IF /\ input.code.type = "string"
                          /\ input.code.text \in {"s404", "s599"}
                  THEN (IF input.code.text = "s404" THEN 404 ELSE 599)
                  ELSE 500

\* C33 witness: an object with code 404 was wrapped and the status is 404.
C33_Witness ==
    /\ input.kind = "error"
    /\ input.type = "object"
    /\ input.code = [type |-> "number", value |-> 404, integer |-> TRUE]
    /\ output.kind = "ProcessingError"
    /\ output.message = 404

\* A step of a read or compare: the request arrives, one of its reads gets its
\* answer, or a watch makes a step of its closing read or compare.
ReadingStep(r) ==
    /\ reqs'[r] # reqs[r]
    /\ \/ Arrives(r, "read")
       \/ Arrives(r, "compare")
       \/ reqs[r].op \in {"read", "compare", "orphan"}
       \/ reqs[r].op = "watch" /\ reqs[r].pc = "final"

\* C34: read and compare (and the search they call) leave the registry as it
\* is, whether they succeed or fail: the sequence of Watchers, and every
\* Watcher's address and stock, are the same after each of their steps; so is
\* it after an eviction.  Only a step of a watch's loop may change it.
C34_ReadsKeepRegistry ==
    [][/\ (\E r \in Requests : ReadingStep(r)) => watchers' = watchers
       /\ (\A r \in Requests : reqs'[r] = reqs[r]) => watchers' = watchers]_vars

\* C34 witness: a read has got its quote from the transport and finished with
\* its result, next to a compare that was rejected while one of its reads was
\* still outstanding.
C34_Witness ==
    /\ reqs[1].op = "read" /\ reqs[1].pc = "done" /\ reqs[1].ncalls = 1
    /\ reqs[1].error = NoError
    /\ reqs[1].result.watchers = watchers
    /\ reqs[2].op = "orphan" /\ stocks["DIS"] # Undefined

\* A read, watch or compare request that has not settled.
Pending(r) == reqs[r].op \in {"read", "watch", "compare"} /\ reqs[r].pc # "done"

\* C37: every read, watch and compare request completes, with a result or
\* with an error, if every transport call it issues resolves or fails; a
\* request issues no more transport calls than it has reads: a watch over n
\* symbols at most n in its loop plus those of its closing read or compare.
C37_RequestsComplete ==
    /\ [](\A r \in Requests :
            reqs[r].op \in {"read", "watch", "compare"}
                => reqs[r].ncalls <= (IF reqs[r].op = "watch" THEN Len(reqs[r].names) ELSE 0)
                                        + Len(FinalNames(reqs[r])))
    /\ \A r \in Requests :
            Pending(r) ~> (reqs[r].pc = "done" /\ (reqs[r].error # NoError
                                                      \/ reqs[r].result # NoResult))

\* C37 witness: a compare has waited for two transport calls and completed
\* with its result.
C37_Witness ==
    \E r \in Requests :
        /\ reqs[r].op = "compare"
        /\ reqs[r].pc = "done"
        /\ reqs[r].ncalls = 2
        /\ reqs[r].error = NoError
        /\ reqs[r].result # NoResult

====
